---- MODULE Spec2Model ----
(***************************************************************************)
(* Model of windrt (src/main.cpp): a compute shader that sums, per pixel   *)
(* of a render target, the wind vectors of the shapes containing the       *)
(* pixel, and the host program that uploads the shape parameters,          *)
(* dispatches the shader in 16x16 tiles and then draws the render target.  *)
(*                                                                         *)
(* Numbers.  The shader works on 32-bit floats.  The model uses exact      *)
(* integer arithmetic: positions, sizes and wind vectors are integers,     *)
(* angles are integers in thousandths of a degree (Deg(d) = d * 1000),     *)
(* atan and cos/sin are tables rounded to that resolution.  Rounding of    *)
(* float arithmetic itself is not modelled.                                *)
(***************************************************************************)
EXTENDS Integers, Sequences, FiniteSets, TLC

VARIABLES
    pc,            \* position of the host thread in main()
    RT_WIDTH,      \* const int RT_WIDTH  (fixed at start)
    RT_HEIGHT,     \* const int RT_HEIGHT (fixed at start)
    scene,         \* the shape literals main() writes into windParams
    atanOrigin,    \* what atan(0.0, 0.0) returns on this GPU (undefined in GLSL)
    windParams,    \* WindFieldParams windParams (host global)
    uboParams,     \* contents of the uniform buffer uboParams
    windRT,        \* texels of the render target windRT
    pending,       \* work-items of the current dispatch that have not run yet
    storeCount,    \* per texel: imageStore calls of the current dispatch
    oobStores,     \* imageStore coordinates outside the render target
    barrierBits,   \* bits of the glMemoryBarrier issued since the last dispatch
    iter,          \* iterations of the main loop started so far
    sample,        \* what the last draw of renderWindField observed
    seenParams,    \* parameter blocks read by work-items so far
    inFlightWrite, \* a host write of the parameters happened during a dispatch
    call,          \* harness: the shader function being applied and its inputs
    ret            \* harness: its result

vars == <<pc, RT_WIDTH, RT_HEIGHT, scene, atanOrigin, windParams, uboParams,
          windRT, pending, storeCount, oobStores, barrierBits, iter, sample,
          seenParams, inFlightWrite, call, ret>>

hostVars == <<pc, RT_WIDTH, RT_HEIGHT, scene, windParams, uboParams, windRT,
              pending, storeCount, oobStores, barrierBits, iter, sample,
              seenParams, inFlightWrite>>

\* Values of variables that hold nothing yet.
NoCall == [op |-> "none"]
NoResult == [done |-> FALSE]
Result(v) == [done |-> TRUE, value |-> v]
NoParams == [allocated |-> FALSE]
NoSample == [taken |-> FALSE]
Undef == <<>>

(***************************************************************************)
(* Bounds of the model.                                                    *)
(***************************************************************************)
\* Tile edge of the model's dispatch; stands for local_size_x = local_size_y = 16.
LocalSize == 2
\* Iterations of the main loop that are explored.
MaxIter == 2
\* Length of the shapes array in the shader-function harness.
ArrLen == 2
\* Largest pixel coordinate in the shader-function harness.
MaxCoord == 9

(***************************************************************************)
(* Program constants.                                                      *)
(***************************************************************************)
SHAPE_CIRCLE == 0
SHAPE_RECT == 1
SHAPE_SECTOR == 2
MAX_SHAPES == 128

SHAPE_UNKNOWN == SHAPE_SECTOR + 5   \* a type value no case of the switch matches

Deg(d) == d * 1000
FullTurn == Deg(360)

(***************************************************************************)
(* glm::vec2 / GLSL vec2                                                   *)
(***************************************************************************)
VecZero == <<0, 0>>
VecAdd(a, b) == <<a[1] + b[1], a[2] + b[2]>>
VecSub(a, b) == <<a[1] - b[1], a[2] - b[2]>>
VecScale(a, k) == <<a[1] * k, a[2] * k>>
Abs(n) == IF n < 0 THEN -n ELSE n

\* length(v) <= r, decided exactly on the squares.
LengthLeq(v, r) == r >= 0 /\ v[1] * v[1] + v[2] * v[2] <= r * r

WindShape(type, pos, size, rotation, angleRange, windDir, windSpeed) ==
    [type |-> type, pos |-> pos, size |-> size, rotation |-> rotation,
     angleRange |-> angleRange, windDir |-> windDir, windSpeed |-> windSpeed]

\* A zero-initialised WindShape (static storage).
ZeroShape == WindShape(0, VecZero, VecZero, 0, 0, VecZero, 0)

(***************************************************************************)
(* Trigonometry tables.                                                    *)
(***************************************************************************)
\* atan(y/x) in thousandths of a degree for 0 <= y, x <= 12: AtanTab[y+1][x+1].
AtanTab == <<
    <<    0,     0,     0,     0,     0,     0,     0,     0,     0,     0,     0,     0,     0>>,
    <<90000, 45000, 26565, 18435, 14036, 11310,  9462,  8130,  7125,  6340,  5711,  5194,  4764>>,
    <<90000, 63435, 45000, 33690, 26565, 21801, 18435, 15945, 14036, 12529, 11310, 10305,  9462>>,
    <<90000, 71565, 56310, 45000, 36870, 30964, 26565, 23199, 20556, 18435, 16699, 15255, 14036>>,
    <<90000, 75964, 63435, 53130, 45000, 38660, 33690, 29745, 26565, 23962, 21801, 19983, 18435>>,
    <<90000, 78690, 68199, 59036, 51340, 45000, 39806, 35538, 32005, 29055, 26565, 24444, 22620>>,
    <<90000, 80538, 71565, 63435, 56310, 50194, 45000, 40601, 36870, 33690, 30964, 28610, 26565>>,
    <<90000, 81870, 74055, 66801, 60255, 54462, 49399, 45000, 41186, 37875, 34992, 32471, 30256>>,
    <<90000, 82875, 75964, 69444, 63435, 57995, 53130, 48814, 45000, 41634, 38660, 36027, 33690>>,
    <<90000, 83660, 77471, 71565, 66038, 60945, 56310, 52125, 48366, 45000, 41987, 39289, 36870>>,
    <<90000, 84289, 78690, 73301, 68199, 63435, 59036, 55008, 51340, 48013, 45000, 42274, 39806>>,
    <<90000, 84806, 79695, 74745, 70017, 65556, 61390, 57529, 53973, 50711, 47726, 45000, 42510>>,
    <<90000, 85236, 80538, 75964, 71565, 67380, 63435, 59744, 56310, 53130, 50194, 47490, 45000>>
>>

\* GLSL atan(y, x) in thousandths of a degree, in (-180, 180]; atan(0, 0) is
\* undefined by GLSL and yields whatever this GPU yields (atanOrigin).
Atan2(y, x) ==
    IF x = 0 /\ y = 0 THEN atanOrigin
    ELSE LET q == AtanTab[Abs(y) + 1][Abs(x) + 1] IN
         IF y >= 0 THEN (IF x >= 0 THEN q ELSE Deg(180) - q)
                   ELSE (IF x >= 0 THEN -q ELSE q - Deg(180))

\* 10000 * cos and 10000 * sin of the angles the model's rectangles use.
TrigScale == 100 * 100
CosTab(a) ==
    CASE Abs(a) = Deg(0)  -> 10000
      [] Abs(a) = Deg(30) -> 8660
      [] Abs(a) = Deg(45) -> 7071
      [] Abs(a) = Deg(60) -> 5000
      [] Abs(a) = Deg(90) -> 0
SinAbsTab(a) ==
    CASE Abs(a) = Deg(0)  -> 0
      [] Abs(a) = Deg(30) -> 5000
      [] Abs(a) = Deg(45) -> 7071
      [] Abs(a) = Deg(60) -> 8660
      [] Abs(a) = Deg(90) -> 10000
SinTab(a) == IF a < 0 THEN -SinAbsTab(a) ELSE SinAbsTab(a)

(***************************************************************************)
(* The compute shader's functions.                                         *)
(***************************************************************************)
\* deg2rad: the model keeps the angle in thousandths of a degree; the
\* conversion factor is folded into CosTab/SinTab.
deg2rad(deg) == deg

\* rotateVec(v, rad), result scaled by TrigScale.
rotateVec(v, rad) ==
    <<v[1] * CosTab(rad) - v[2] * SinTab(rad),
      v[1] * SinTab(rad) + v[2] * CosTab(rad)>>

isInCircle_Strict(pixelPos, shape) ==
    LET r == shape.size[1]
        d == VecSub(pixelPos, shape.pos)
    IN  r > 0 /\ d[1] * d[1] + d[2] * d[2] < r * r

isInCircle(pixelPos, shape) ==
    LET r == shape.size[1]
    IN  LengthLeq(VecSub(pixelPos, shape.pos), r)

\* abs(delta.x) <= halfSize.x with halfSize = size * 0.5 and delta scaled by
\* TrigScale: compared after multiplying both sides by 2.
isInRect(pixelPos, shape) ==
    LET delta0 == VecSub(pixelPos, shape.pos)
        rad == deg2rad(-shape.rotation)
        delta == rotateVec(delta0, rad)
    IN  /\ 2 * Abs(delta[1]) <= shape.size[1] * TrigScale
        /\ 2 * Abs(delta[2]) <= shape.size[2] * TrigScale

\* Lines 170-171: the pixel's angle around the sector's centre.
PixelAngle(delta) ==
    LET angle == Atan2(delta[2], delta[1])
    IN  IF angle < 0 THEN angle + FullTurn ELSE angle

SectorAngleTest_WrapAtFullTurn(angle, shape) ==
    LET startAngle == shape.rotation
        endAngle == startAngle + shape.angleRange
    IN  IF endAngle >= FullTurn
        THEN angle >= startAngle \/ angle <= (endAngle - FullTurn)
        ELSE angle >= startAngle /\ angle <= endAngle

\* Lines 173-181: the angular part of isInSector.
SectorAngleTest(angle, shape) ==
    LET startAngle == shape.rotation
        endAngle == startAngle + shape.angleRange
    IN  IF endAngle > FullTurn
        THEN angle >= startAngle \/ angle <= (endAngle - FullTurn)
        ELSE angle >= startAngle /\ angle <= endAngle

isInSector(pixelPos, shape) ==
    LET r == shape.size[1]
        delta == VecSub(pixelPos, shape.pos)
    IN  IF ~LengthLeq(delta, r) THEN FALSE
        ELSE SectorAngleTest(PixelAngle(delta), shape)

getShapeWindVec(pixelPos, shape) == VecScale(shape.windDir, shape.windSpeed)

\* The switch of lines 212-224.
IsInShape(pixelPos, shape) ==
    CASE shape.type = SHAPE_CIRCLE -> isInCircle(pixelPos, shape)
      [] shape.type = SHAPE_RECT -> isInRect(pixelPos, shape)
      [] shape.type = SHAPE_SECTOR -> isInSector(pixelPos, shape)
      [] OTHER -> FALSE

Accumulate_Overwrite(total, pixelPos, shape) ==
    IF IsInShape(pixelPos, shape) THEN getShapeWindVec(pixelPos, shape) ELSE total

\* Lines 226-229: totalWindVec += getShapeWindVec(...) when inside the shape.
Accumulate(total, pixelPos, shape) ==
    IF IsInShape(pixelPos, shape)
    THEN VecAdd(total, getShapeWindVec(pixelPos, shape))
    ELSE total

RECURSIVE ShapeLoop_WholeArray(_, _, _, _)
ShapeLoop_WholeArray(pixelPos, params, i, total) ==
    IF i \in DOMAIN params.shapes
    THEN ShapeLoop_WholeArray(pixelPos, params, i + 1,
                              Accumulate(total, pixelPos, params.shapes[i]))
    ELSE total

\* Lines 207-230: for (int i = 0; i < params.shapeCount; i++) { ... }
RECURSIVE ShapeLoop(_, _, _, _)
ShapeLoop(pixelPos, params, i, total) ==
    IF i < params.shapeCount
    THEN ShapeLoop(pixelPos, params, i + 1,
                   Accumulate(total, pixelPos, params.shapes[i]))
    ELSE total

\* Lines 203-230: the value main() computes for an in-range pixel.
ShaderEvaluate(pixelPos, params) == ShapeLoop(pixelPos, params, 0, VecZero)

(***************************************************************************)
(* Harness for the shader's functions: the inputs are drawn at start, one  *)
(* action applies the function.                                            *)
(***************************************************************************)
UnitDirs == {<<1, 0>>, <<0, 1>>, <<-1, 0>>, <<0, -1>>}

\* The circle of the 10x10 scenario: centre (5,5), radius 2, direction (1,0), speed 3.
ScenarioCircle == WindShape(SHAPE_CIRCLE, <<5, 5>>, <<2, 0>>, 0, 0, <<1, 0>>, 3)

TestShapes ==
    { ScenarioCircle,
      WindShape(SHAPE_CIRCLE, <<6, 5>>, <<3, 0>>, 0, 0, <<0, 1>>, 2),
      WindShape(SHAPE_RECT, <<4, 4>>, <<4, 2>>, Deg(0), 0, <<-1, 0>>, 4),
      WindShape(SHAPE_RECT, <<5, 5>>, <<6, 2>>, Deg(45), 0, <<0, -1>>, 5),
      WindShape(SHAPE_SECTOR, <<5, 5>>, <<4, 0>>, Deg(350), Deg(20), <<1, 0>>, 7),
      WindShape(SHAPE_SECTOR, <<3, 3>>, <<3, 0>>, Deg(30), Deg(120), <<0, 1>>, 11),
      WindShape(SHAPE_UNKNOWN, <<5, 5>>, <<9, 9>>, 0, 0, <<1, 0>>, 13) }

Pixels == (0..MaxCoord) \X (0..MaxCoord)

Params(n, w, h, shapes) ==
    [shapeCount |-> n, rtWidth |-> w, rtHeight |-> h, shapes |-> shapes]

\* Any array of test shapes, any shapeCount up to its length.
ListCalls ==
    { [op |-> "evaluate", pixel |-> p,
       params |-> Params(n, MaxCoord + 1, MaxCoord + 1, f)] :
        p \in Pixels, n \in 0..ArrLen, f \in [0..(ArrLen - 1) -> TestShapes] }

\* One circle (shapeCount = 1) in front of an entry that is not to be read.
CircleCalls ==
    { [op |-> "evaluate", pixel |-> p,
       params |-> Params(1, MaxCoord + 1, MaxCoord + 1,
                    [i \in 0..(ArrLen - 1) |->
                        IF i = 0 THEN WindShape(SHAPE_CIRCLE, c, <<r, 0>>, 0, 0, d, s)
                        ELSE WindShape(SHAPE_CIRCLE, <<5, 5>>, <<20, 0>>, 0, 0, <<1, 1>>, 1)])] :
        p \in Pixels, c \in {<<5, 5>>, <<0, 0>>, <<9, 4>>}, r \in 0..3,
        d \in UnitDirs, s \in {0, 3} }

EvalCalls == ListCalls \cup CircleCalls

AtanOriginValues == {Deg(0), Deg(90)}

HostIdle ==
    /\ pc = "harness"
    /\ RT_WIDTH = 0 /\ RT_HEIGHT = 0
    /\ scene = <<>>
    /\ windParams = NoParams /\ uboParams = NoParams
    /\ windRT = <<>>
    /\ pending = {}
    /\ storeCount = <<>>
    /\ oobStores = {}
    /\ barrierBits = {}
    /\ iter = 0
    /\ sample = NoSample
    /\ seenParams = {}
    /\ inFlightWrite = FALSE

InitEval ==
    /\ HostIdle
    /\ atanOrigin \in AtanOriginValues
    /\ call \in EvalCalls
    /\ ret = NoResult

\* One invocation of the shader's loop for an in-range pixel.
CallEvaluate ==
    /\ call.op = "evaluate" /\ ~ret.done
    /\ ret' = Result(ShaderEvaluate(call.pixel, call.params))
    /\ UNCHANGED <<hostVars, atanOrigin, call>>

NextEval == CallEvaluate

SpecEval == InitEval /\ [][NextEval]_vars

\* Sector inputs: rotation and angleRange in [0, 360).
SectorRots == {Deg(0), Deg(10), Deg(90), Deg(180), Deg(270), Deg(340), Deg(350), Deg(360) - 1}
SectorRanges == {Deg(0), 1, Deg(10), Deg(20), Deg(90), Deg(180), Deg(270), Deg(350), Deg(360) - 1}
SectorAngles == {Deg(5 * k) : k \in 0..71} \cup {1, Deg(360) - 1}
SectorCentre == <<2, 2>>
SectorPixels == (0..4) \X (0..4)
SectorRadii == 0..3

SectorShape(r, rot, range) ==
    WindShape(SHAPE_SECTOR, SectorCentre, <<r, 0>>, rot, range, <<1, 0>>, 1)

SectorAngleCalls ==
    { [op |-> "sectorAngle", angle |-> a, shape |-> SectorShape(1, rot, range)] :
        a \in SectorAngles, rot \in SectorRots, range \in SectorRanges }

SectorCellCalls ==
    { [op |-> "isInSector", pixel |-> p, shape |-> SectorShape(r, rot, range)] :
        p \in SectorPixels, r \in SectorRadii, rot \in SectorRots, range \in SectorRanges }

InitSector ==
    /\ HostIdle
    /\ \/ call \in SectorAngleCalls /\ atanOrigin = Deg(0)
       \/ call \in SectorCellCalls /\ atanOrigin \in AtanOriginValues
    /\ ret = NoResult

\* The angular test of isInSector applied to a given angle.
CallSectorAngle ==
    /\ call.op = "sectorAngle" /\ ~ret.done
    /\ ret' = Result(SectorAngleTest(call.angle, call.shape))
    /\ UNCHANGED <<hostVars, atanOrigin, call>>

\* isInSector applied to a pixel.
CallIsInSector ==
    /\ call.op = "isInSector" /\ ~ret.done
    /\ ret' = Result(isInSector(call.pixel, call.shape))
    /\ UNCHANGED <<hostVars, atanOrigin, call>>

NextSector == CallSectorAngle \/ CallIsInSector

SpecSector == InitSector /\ [][NextSector]_vars

(***************************************************************************)
(* The host program main() and the GPU work-items of its dispatches.       *)
(***************************************************************************)
GL_SHADER_IMAGE_ACCESS_BARRIER_BIT == "GL_SHADER_IMAGE_ACCESS_BARRIER_BIT"
GL_TEXTURE_FETCH_BARRIER_BIT == "GL_TEXTURE_FETCH_BARRIER_BIT"

\* Render-target sizes explored (RT_WIDTH x RT_HEIGHT; 1024 x 768 in the source).
GridSizes == {<<2, 2>>, <<3, 1>>, <<3, 2>>}

\* Shape literals explored for lines 381-405, placed on the small render
\* targets above: a circle, a rectangle rotated by 45 degrees, a sector
\* starting at 30 degrees with a range of 120 degrees whose centre is a pixel.
Scenes ==
    { <<WindShape(SHAPE_CIRCLE, <<0, 0>>, <<1, 0>>, Deg(0), Deg(0), <<1, 0>>, 5),
        WindShape(SHAPE_RECT, <<2, 0>>, <<2, 2>>, Deg(45), Deg(0), <<0, 1>>, 8),
        WindShape(SHAPE_SECTOR, <<1, 0>>, <<1, 0>>, Deg(30), Deg(120), <<-1, -1>>, 6)>> }

\* WindFieldParams windParams as a zero-initialised global.
ZeroParams == Params(0, 0, 0, [i \in 0..(MAX_SHAPES - 1) |-> ZeroShape])

\* Texels of a w x h texture.
Texels(w, h) == (0..(w - 1)) \X (0..(h - 1))

NumGroups_Floor(n) == n \div LocalSize

\* (RT_WIDTH + 15) / 16: work groups along one axis.
NumGroups(n) == (n + (LocalSize - 1)) \div LocalSize

\* gl_GlobalInvocationID.xy of the work-items of glDispatchCompute(gx, gy, 1).
WorkItems(gx, gy) == (0..(gx * LocalSize - 1)) \X (0..(gy * LocalSize - 1))

ImageStore_RowZero(img, coord, v) ==
    IF <<coord[1], 0>> \in DOMAIN img THEN [img EXCEPT ![<<coord[1], 0>>] = v] ELSE img

\* imageStore(windRT, pixelCoord, v); a store outside the image has no effect.
ImageStore(img, coord, v) ==
    IF coord \in DOMAIN img THEN [img EXCEPT ![coord] = v] ELSE img

\* What a work-item reads of the parameter block: the head and shapes[i] for
\* i < shapeCount.
ReadSet(params) ==
    [shapeCount |-> params.shapeCount, rtWidth |-> params.rtWidth,
     rtHeight |-> params.rtHeight,
     shapes |-> [i \in 0..(params.shapeCount - 1) |-> params.shapes[i]]]

\* Line 199: the work-item is outside the render target.
OutOfRange(pixelCoord, params) ==
    pixelCoord[1] >= params.rtWidth \/ pixelCoord[2] >= params.rtHeight

\* vec4(totalWindVec, 0.0, 0.0)
Texel(v) == <<v[1], v[2], 0, 0>>

\* The image after the shader's main() ran for one work-item.
ShaderMain(img, pixelCoord, params) ==
    IF OutOfRange(pixelCoord, params) THEN img
    ELSE ImageStore(img, pixelCoord, Texel(ShaderEvaluate(pixelCoord, params)))

\* glBufferData(GL_UNIFORM_BUFFER, sizeof(WindFieldParams), &windParams, ...)
BufferData(buf, data) == data

BufferSubData_Skip(buf, data) == buf

\* glBufferSubData(GL_UNIFORM_BUFFER, 0, sizeof(WindFieldParams), &windParams)
BufferSubData(buf, data) == data

\* A draw's texture fetches wait for the shader writes before the barrier
\* only if the barrier named texture fetches.
FetchOrdered == GL_TEXTURE_FETCH_BARRIER_BIT \in barrierBits

Init ==
    /\ pc = "glfwInit"
    /\ \E sz \in GridSizes : RT_WIDTH = sz[1] /\ RT_HEIGHT = sz[2]
    /\ scene \in Scenes
    /\ atanOrigin \in AtanOriginValues
    /\ windParams = ZeroParams
    /\ uboParams = NoParams
    /\ windRT = <<>>
    /\ pending = {}
    /\ storeCount = <<>>
    /\ oobStores = {}
    /\ barrierBits = {}
    /\ iter = 0
    /\ sample = NoSample
    /\ seenParams = {}
    /\ inFlightWrite = FALSE
    /\ call = NoCall
    /\ ret = NoResult

constVars == <<RT_WIDTH, RT_HEIGHT, scene, atanOrigin, call, ret>>

\* Lines 359-368: glfwInit succeeds and the window is created.
GlfwInitOk ==
    /\ pc = "glfwInit"
    /\ pc' = "initWindRT"
    /\ UNCHANGED <<constVars, windParams, uboParams, windRT, pending, storeCount,
                   oobStores, barrierBits, iter, sample, seenParams, inFlightWrite>>

\* Lines 359-363: glfwInit fails, main returns -1.
GlfwInitFail ==
    /\ pc = "glfwInit"
    /\ pc' = "exit"
    /\ UNCHANGED <<constVars, windParams, uboParams, windRT, pending, storeCount,
                   oobStores, barrierBits, iter, sample, seenParams, inFlightWrite>>

\* initWindRT: glTexImage2D with no data, the texels are undefined.
initWindRT ==
    /\ pc = "initWindRT"
    /\ windRT' = [c \in Texels(RT_WIDTH, RT_HEIGHT) |-> Undef]
    /\ storeCount' = [c \in Texels(RT_WIDTH, RT_HEIGHT) |-> 0]
    /\ pc' = "initUBO"
    /\ UNCHANGED <<constVars, windParams, uboParams, pending, oobStores,
                   barrierBits, iter, sample, seenParams, inFlightWrite>>

\* initUBO: the buffer is created from windParams as it is at that time.
initUBO ==
    /\ pc = "initUBO"
    /\ uboParams' = BufferData(uboParams, windParams)
    /\ inFlightWrite' = (inFlightWrite \/ pending # {})
    /\ pc' = "initComputeShader"
    /\ UNCHANGED <<constVars, windParams, windRT, pending, storeCount, oobStores,
                   barrierBits, iter, sample, seenParams>>

\* initComputeShader: compiles and links the program.
initComputeShader ==
    /\ pc = "initComputeShader"
    /\ pc' = "populate"
    /\ UNCHANGED <<constVars, windParams, uboParams, windRT, pending, storeCount,
                   oobStores, barrierBits, iter, sample, seenParams, inFlightWrite>>

\* Lines 376-405: shapeCount = 3, the grid size and shapes[0..2].
PopulateParams ==
    /\ pc = "populate"
    /\ windParams' = Params(3, RT_WIDTH, RT_HEIGHT,
                        [i \in 0..(MAX_SHAPES - 1) |->
                            IF i < 3 THEN scene[i + 1] ELSE windParams.shapes[i]])
    /\ inFlightWrite' = (inFlightWrite \/ pending # {})
    /\ pc' = "upload"
    /\ UNCHANGED <<constVars, uboParams, windRT, pending, storeCount, oobStores,
                   barrierBits, iter, sample, seenParams>>

\* Lines 408-410: glBufferSubData of the whole block.
UploadParams ==
    /\ pc = "upload"
    /\ uboParams' = BufferSubData(uboParams, windParams)
    /\ inFlightWrite' = (inFlightWrite \/ pending # {})
    /\ pc' = "loop"
    /\ UNCHANGED <<constVars, windParams, windRT, pending, storeCount, oobStores,
                   barrierBits, iter, sample, seenParams>>

\* Line 415: the window is not to be closed; the next iteration starts.
LoopContinue ==
    /\ pc = "loop"
    /\ iter < MaxIter
    /\ iter' = iter + 1
    /\ pc' = "dispatch"
    /\ UNCHANGED <<constVars, windParams, uboParams, windRT, pending, storeCount,
                   oobStores, barrierBits, sample, seenParams, inFlightWrite>>

\* Line 415: the window is to be closed; lines 436-441.
LoopExit ==
    /\ pc = "loop"
    /\ pc' = "exit"
    /\ UNCHANGED <<constVars, windParams, uboParams, windRT, pending, storeCount,
                   oobStores, barrierBits, iter, sample, seenParams, inFlightWrite>>

\* Lines 418-421: glDispatchCompute.  The GPU takes the dispatches in order:
\* the work-items of this one start after those of the previous one ended.
Dispatch ==
    /\ pc = "dispatch"
    /\ pending = {}
    /\ pending' = WorkItems(NumGroups(RT_WIDTH), NumGroups(RT_HEIGHT))
    /\ storeCount' = [c \in DOMAIN windRT |-> 0]
    /\ barrierBits' = {}
    /\ sample' = NoSample
    /\ pc' = "barrier"
    /\ UNCHANGED <<constVars, windParams, uboParams, windRT, oobStores, iter,
                   seenParams, inFlightWrite>>

\* Line 423: glMemoryBarrier(GL_SHADER_IMAGE_ACCESS_BARRIER_BIT).
MemoryBarrier ==
    /\ pc = "barrier"
    /\ barrierBits' = barrierBits \cup {GL_SHADER_IMAGE_ACCESS_BARRIER_BIT}
    /\ pc' = "render"
    /\ UNCHANGED <<constVars, windParams, uboParams, windRT, pending, storeCount,
                   oobStores, iter, sample, seenParams, inFlightWrite>>

\* Lines 426-428: renderWindField draws a full-screen quad whose fragment
\* shader samples windRT with texture().
renderWindField ==
    /\ pc = "render"
    /\ FetchOrdered => pending = {}
    /\ sample' = [taken |-> TRUE,
                  generation |-> iter,
                  complete |-> \A g \in pending : OutOfRange(g, uboParams),
                  visible |-> FetchOrdered]
    /\ pc' = "swap"
    /\ UNCHANGED <<constVars, windParams, uboParams, windRT, pending, storeCount,
                   oobStores, barrierBits, iter, seenParams, inFlightWrite>>

\* Lines 431-432: glfwSwapBuffers, glfwPollEvents.
SwapAndPoll ==
    /\ pc = "swap"
    /\ pc' = "loop"
    /\ UNCHANGED <<constVars, windParams, uboParams, windRT, pending, storeCount,
                   oobStores, barrierBits, iter, sample, seenParams, inFlightWrite>>

\* One work-item of the current dispatch runs the shader's main().
Invoke(g) ==
    /\ g \in pending
    /\ pending' = pending \ {g}
    /\ seenParams' = seenParams \cup {ReadSet(uboParams)}
    /\ windRT' = ShaderMain(windRT, g, uboParams)
    /\ IF OutOfRange(g, uboParams)
       THEN UNCHANGED <<storeCount, oobStores>>
       ELSE IF g \in DOMAIN windRT
            THEN /\ storeCount' = [storeCount EXCEPT ![g] = @ + 1]
                 /\ UNCHANGED oobStores
            ELSE /\ oobStores' = oobStores \cup {g}
                 /\ UNCHANGED storeCount
    /\ UNCHANGED <<constVars, pc, windParams, uboParams, barrierBits, iter, sample,
                   inFlightWrite>>

WorkItemRuns == \E g \in pending : Invoke(g)

Next ==
    \/ GlfwInitOk
    \/ GlfwInitFail
    \/ initWindRT
    \/ initUBO
    \/ initComputeShader
    \/ PopulateParams
    \/ UploadParams
    \/ LoopContinue
    \/ LoopExit
    \/ Dispatch
    \/ MemoryBarrier
    \/ renderWindField
    \/ SwapAndPoll
    \/ WorkItemRuns

Spec == Init /\ [][Next]_vars

(***************************************************************************)
(* Claims about the host program and its dispatches (Spec).                *)
(***************************************************************************)
\* Dispatches issued so far.
Dispatched == IF pc = "dispatch" THEN iter - 1 ELSE iter

\* The last dispatch has been issued and all its work-items have run.
DispatchComplete == Dispatched >= 1 /\ pending = {}

\* C1: the consumer (renderWindField sampling the grid) reads a generation
\* only after every cell write of that generation's dispatch has completed
\* and been made visible, by the barrier, to the kind of read it performs.
C1_ConsumerReadsCompleteGeneration ==
    sample.taken => (sample.complete /\ sample.visible)

\* C2: one dispatch of ceil(W/tile) x ceil(H/tile) tiles writes every cell of
\* the W x H grid exactly once, and no work-item outside the grid writes.
C2_TilesCoverGridOnce ==
    /\ oobStores = {}
    /\ \A c \in DOMAIN storeCount : storeCount[c] <= 1
    /\ DispatchComplete =>
         /\ DOMAIN windRT = Texels(RT_WIDTH, RT_HEIGHT)
         /\ \A c \in Texels(RT_WIDTH, RT_HEIGHT) :
              storeCount[c] = 1 /\ windRT[c] # Undef

\* C2 witness: a completed dispatch over a grid that needs two tiles along x
\* and leaves tile overhang along both axes, with every cell written once.
C2_Witness ==
    /\ DispatchComplete
    /\ RT_WIDTH > LocalSize /\ RT_WIDTH % LocalSize # 0 /\ RT_HEIGHT % LocalSize # 0
    /\ \A c \in Texels(RT_WIDTH, RT_HEIGHT) : storeCount[c] = 1
    /\ oobStores = {}

\* The work-items of a gx x gy dispatch run one after the other, row by row.
RECURSIVE ScanFrom(_, _, _, _, _)
ScanFrom(img, k, gx, gy, params) ==
    IF k >= gx * LocalSize * gy * LocalSize THEN img
    ELSE ScanFrom(ShaderMain(img, <<k % (gx * LocalSize), k \div (gx * LocalSize)>>, params),
                  k + 1, gx, gy, params)

SequentialScan(params) ==
    ScanFrom([c \in Texels(RT_WIDTH, RT_HEIGHT) |-> Undef], 0,
             NumGroups(RT_WIDTH), NumGroups(RT_HEIGHT), params)

\* C8: for a fixed parameter snapshot, every order in which the work-items of
\* a dispatch run ends with the same grid, the one a sequential scan gives.
C8_ScheduleIndependent ==
    DispatchComplete => windRT = SequentialScan(uboParams)

\* C8 witness: a completed dispatch over the 3x2 grid whose cells (1,0) and
\* (1,1) hold different vectors.
C8_Witness ==
    /\ DispatchComplete
    /\ RT_WIDTH = 3 /\ RT_HEIGHT = 2
    /\ windRT[<<1, 0>>] # windRT[<<1, 1>>]
    /\ windRT[<<1, 1>>] # Texel(VecZero)

\* The shape count the work-items read stays within the shapes array, so the
\* loop of lines 207-230 reads no entry at index MAX_SHAPES or beyond.
ShapeCountWithinArray ==
    \A p \in seenParams :
        p.shapeCount <= MAX_SHAPES /\ DOMAIN p.shapes \subseteq 0..(MAX_SHAPES - 1)

\* The parameters main() writes in lines 376-405.
PopulatedParams ==
    Params(3, RT_WIDTH, RT_HEIGHT,
           [i \in 0..(MAX_SHAPES - 1) |-> IF i < 3 THEN scene[i + 1] ELSE ZeroShape])

\* C9: the populated parameters are in the buffer before the first dispatch
\* starts, neither the buffer nor a shape is written while a dispatch is in
\* flight, and every work-item of every generation reads the same populated
\* parameters.
C9_ParamsImmutableSnapshot ==
    /\ ~inFlightWrite
    /\ seenParams \subseteq {ReadSet(PopulatedParams)}
    /\ (pc = "dispatch" \/ Dispatched >= 1) =>
         uboParams = PopulatedParams /\ windParams = PopulatedParams

\* C9 witness: the second generation is in flight and work-items have read
\* the parameters.
C9_Witness ==
    /\ iter = 2 /\ pc # "dispatch"
    /\ pending # {}
    /\ seenParams = {ReadSet(PopulatedParams)}

(***************************************************************************)
(* Claims about the shader's functions (SpecEval, SpecSector).             *)
(***************************************************************************)
\* windDirection * windSpeed of a shape, written out componentwise.
Contribution(sh) == <<sh.windDir[1] * sh.windSpeed, sh.windDir[2] * sh.windSpeed>>

EvalDone == call.op = "evaluate" /\ ret.done

CountedShapes == 0..(call.params.shapeCount - 1)

\* C4: a cell outside the region of every shape with index < shapeCount
\* evaluates to exactly (0,0), whatever the shapes' winds are and whatever
\* the array holds at index >= shapeCount.
C4_OutsideEveryShapeIsZero ==
    (/\ EvalDone
     /\ \A i \in CountedShapes : ~IsInShape(call.pixel, call.params.shapes[i]))
    => ret.value = VecZero

\* C4 witness: an evaluated cell outside every counted shape, with a counted
\* shape of non-zero wind and an uncounted array entry that does contain the
\* cell and has non-zero wind.
C4_Witness ==
    /\ EvalDone
    /\ call.params.shapeCount >= 1
    /\ \A i \in CountedShapes :
         /\ ~IsInShape(call.pixel, call.params.shapes[i])
         /\ Contribution(call.params.shapes[i]) # VecZero
    /\ \E i \in DOMAIN call.params.shapes :
         /\ i >= call.params.shapeCount
         /\ IsInShape(call.pixel, call.params.shapes[i])
         /\ Contribution(call.params.shapes[i]) # VecZero
    /\ ret.value = VecZero

SingleCircle ==
    /\ call.op = "evaluate"
    /\ call.params.shapeCount = 1
    /\ call.params.shapes[0].type = SHAPE_CIRCLE

ScenarioCall == SingleCircle /\ call.params.shapes[0] = ScenarioCircle

SwapShapes(params, i, j) ==
    [params EXCEPT !.shapes =
        [k \in DOMAIN params.shapes |->
            IF k = i THEN params.shapes[j]
            ELSE IF k = j THEN params.shapes[i]
            ELSE params.shapes[k]]]

WrapRule(a, start, range) ==
    LET end == start + range
    IN  IF end > FullTurn THEN (a >= start \/ a <= end - FullTurn)
        ELSE (start <= a /\ a <= end)

WithinRadius(pixel, sh) ==
    LET dx == pixel[1] - sh.pos[1]
        dy == pixel[2] - sh.pos[2]
    IN  dx * dx + dy * dy <= sh.size[1] * sh.size[1]

\* C7: a cell within the radius at angle a is in the sector iff
\* (a >= start or a <= end - 360) when end = start + range > 360, and iff
\* start <= a <= end otherwise; a cell beyond the radius is never in it; a
\* sector with rotation 350 and range 20 contains the angle 355 and not 200.
C7_SectorWraparound ==
    ret.done =>
        /\ call.op = "sectorAngle" =>
             /\ ret.value = WrapRule(call.angle, call.shape.rotation, call.shape.angleRange)
             /\ (call.shape.rotation = Deg(350) /\ call.shape.angleRange = Deg(20)
                   /\ call.angle = Deg(355)) => ret.value = TRUE
             /\ (call.shape.rotation = Deg(350) /\ call.shape.angleRange = Deg(20)
                   /\ call.angle = Deg(200)) => ret.value = FALSE
        /\ call.op = "isInSector" =>
             /\ ~WithinRadius(call.pixel, call.shape) => ret.value = FALSE
             /\ WithinRadius(call.pixel, call.shape) =>
                  ret.value = WrapRule(PixelAngle(VecSub(call.pixel, call.shape.pos)),
                                       call.shape.rotation, call.shape.angleRange)

\* C7 witness: the sector (350, 20) tested at the angle 355, found inside.
C7_Witness ==
    /\ call.op = "sectorAngle" /\ ret.done
    /\ call.shape.rotation = Deg(350) /\ call.shape.angleRange = Deg(20)
    /\ call.angle = Deg(355)
    /\ ret.value = TRUE

\* ((a - rotation) mod 360) <= angleRange
ModularRule(a, start, range) == ((a - start + FullTurn) % FullTurn) <= range

\* C10: for rotation, range and angle in [0,360), a cell within the radius at
\* angle a is in the sector iff ((a - rotation) mod 360) <= range; the end
\* boundary is inclusive also when rotation + range is exactly 360.
C10_SectorModular ==
    ret.done =>
        /\ call.op = "sectorAngle" =>
             ret.value = ModularRule(call.angle, call.shape.rotation, call.shape.angleRange)
        /\ (call.op = "isInSector" /\ WithinRadius(call.pixel, call.shape)) =>
             ret.value = ModularRule(PixelAngle(VecSub(call.pixel, call.shape.pos)),
                                    call.shape.rotation, call.shape.angleRange)

\* The same rule holds whenever rotation + range is not exactly 360 (kept as
\* a cross-check of where the code departs from the modular rule).
SectorModularAwayFromFullTurn ==
    (ret.done /\ call.op \in {"sectorAngle", "isInSector"}
       /\ call.shape.rotation + call.shape.angleRange # FullTurn)
    => /\ call.op = "sectorAngle" =>
             ret.value = ModularRule(call.angle, call.shape.rotation, call.shape.angleRange)
       /\ (call.op = "isInSector" /\ WithinRadius(call.pixel, call.shape)) =>
             ret.value = ModularRule(PixelAngle(VecSub(call.pixel, call.shape.pos)),
                                    call.shape.rotation, call.shape.angleRange)

====
